---------------------------- MODULE Spec2Model ----------------------------
(***************************************************************************)
(* A model of key-cycle-proxy: the key pool (src/src/proxy/key_pool.rs),   *)
(* the upstream client (src/src/proxy/upstream.rs), the proxy engine       *)
(* (src/src/proxy/engine.rs) and the request dispatcher                    *)
(* (src/src/routes.rs, src/src/proxy/handler.rs).                          *)
(*                                                                         *)
(* Conventions.  Rust's Option<T> is a sequence of length at most one:     *)
(* <<>> is None and <<x>> is Some(x).  Vec indices are 0-based as in the   *)
(* source; the element at index i of a Vec v is v[i + 1].                  *)
(***************************************************************************)
EXTENDS Integers, Sequences, FiniteSets, TLC

(***************************************************************************)
(* Bounds of the model.                                                    *)
(***************************************************************************)
\* The longest credential sequence a pool is built from.
MaxKeys == 3
\* The width in bits of the pool's cursor (usize in the source).
CursorBits == 2
\* The largest latency sample a probe measures, in abstract time units.
MaxLatency == 1
\* upstream.max_retries, which main hands to the client and to the engine.
MaxRetries == 1
MaxTasks == 2
\* The width of the arithmetic that stands for u64, and the largest backoff setting.
WordBits == 4
MaxBackoffMs == 3
\* The largest attempt index a backoff is computed for.
MaxAttemptIndex == 5

None == <<>>
Some(x) == <<x>>
IsSome(o) == o # <<>>
Unwrap(o) == o[1]

(***************************************************************************)
(* Credentials (config.rs, ApiKeyInfo).  A credential is its model list;   *)
(* its token and url are derived from its position in the pool.            *)
(***************************************************************************)
Others == "others"
ModelNames == {"gpt-3.5-turbo", "claude-2"}
KeyModelSets == {{"gpt-3.5-turbo"}, {Others}}

RECURSIVE SeqsUpTo(_, _)
SeqsUpTo(S, n) ==
    IF n = 0 THEN {<<>>}
    ELSE LET shorter == SeqsUpTo(S, n - 1)
         IN  shorter \cup {Append(s, x) : s \in {t \in shorter : Len(t) = n - 1}, x \in S}

Pools == SeqsUpTo(KeyModelSets, MaxKeys)

\* A supports_model that accepts every credential, against which the selection
\* properties are tried.
supports_model_always(key, model) == TRUE
\* ApiKeyInfo::supports_model: some listed model is the model or "others".
supports_model(key, model) == \E m \in key : m = model \/ m = Others

(***************************************************************************)
(* Durations.  SecsMax stands for Duration::from_secs(u64::MAX), the value *)
(* least_latency_selection starts from and a failed probe returns; every   *)
(* measured sample is below it.                                            *)
(***************************************************************************)
SecsMax == MaxLatency + 1
Measured == 1..MaxLatency
Durations == Measured \cup {SecsMax}

(***************************************************************************)
(* RotationStrategy and From<&str> for it.                                 *)
(***************************************************************************)
StrategyStrings == {"round_robin", "round_robin_health_weighted", "least_latency", "unknown"}
RotationStrategyFrom(s) ==
    CASE s = "round_robin" -> "RoundRobin"
      [] s = "round_robin_health_weighted" -> "RoundRobinHealthWeighted"
      [] s = "least_latency" -> "LeastLatency"
      [] OTHER -> "RoundRobinHealthWeighted"

VARIABLES
    keys,              \* KeyPool.keys: the credential sequence
    strategy,          \* KeyPool.strategy
    current_index,     \* KeyPool.current_index (AtomicUsize)
    latency_cache,     \* KeyPool.latency_cache: index -> Option<Duration>
    pc,                \* where the logical request stands: idle, select, send, await, done
    request,           \* the incoming request descriptor: method, headers, body
    req_model,         \* proxy_request: model
    attempt_count,     \* proxy_request: attempt_count
    last_error,        \* proxy_request: last_error
    use_next_key,      \* proxy_request: use_next_key
    key_info,          \* proxy_request: key_info, as an index into keys
    attempt,           \* UpstreamClient::request: the loop variable attempt
    upstream_request,  \* the HTTP request in flight to the upstream
    upstream_response, \* the upstream response the client returned to the engine
    response,          \* the response the client of the proxy receives
    outcome,           \* history: how the logical request ended
    sends,             \* history: HTTP requests sent upstream for the logical request
    timeouts,          \* history: sends of the request that ran into the per-attempt deadline
    rotations,         \* history: attempts of the request that ended in a rotate-set status
    failed_key,        \* history: the credential of the attempt that last ended in a rotate-set status
    clean,             \* history: every HTTP exchange so far ended in a rotate-set status
    client_return,     \* history: what UpstreamClient::request last returned, and after which send
    attempts,          \* history: attempts of the engine's loop that got a credential
    tried,             \* history: the credentials the engine's attempts were made with
    last_call,         \* history: the last pool operation called and what it returned
    run,               \* history: indices returned by consecutive get_next_key calls
    run_start,         \* history: the cursor value read by the first call of the run
    dominant,          \* history: per model, the credential last written as a strict minimum
    sched_pc,          \* where the latency updater task stands: spawned, startup_run, tick, run
    now,               \* the updater's clock, in seconds since it was spawned
    next_tick,         \* the deadline of the interval's next tick
    starts,            \* history: the times at which runs of update_all_latencies started
    server_pc,         \* axum::serve: serving, grace_sleep, draining, exited
    signal,            \* the shutdown signal received, if any
    connections,       \* open connections
    accepted_after_signal, \* history: a connection was accepted after the signal
    task_pc,           \* where each task stands in get_next_key: idle, fetched
    task_current,      \* get_next_key: each task's local current
    observed,          \* history: the cursor values the tasks' fetch_add calls returned
    returned,          \* history: the indices the tasks' get_next_key calls returned
    twin_index,        \* current_index of a second pool, built with "round_robin"
    twin_result,       \* history: what the second pool returned for the last call
    upstream_config,   \* UpstreamConfig: the backoff settings, and the build's overflow checks
    backoff,           \* history: the last backoff wait computed, and for which attempt index
    run_pc,            \* update_all_latencies: idle, or joining its tasks
    probe_task,        \* the spawned probe task of each index: none, running, ended with a latency
    join_index,        \* update_all_latencies: the index of the task awaited next
    last_probe,        \* history: how the most recent probe of each index ended
    tokens,            \* of each of two runs of the program: the token of each credential
    runs               \* of each of the two runs: where its request stands, and the log
                       \* records its last step emitted

poolVars == <<keys, strategy, current_index, latency_cache>>
reqVars == <<pc, request, req_model, attempt_count, last_error, use_next_key, key_info, attempt,
             upstream_request, upstream_response, response, outcome, sends, timeouts, rotations,
             failed_key, clean, client_return, attempts, tried>>
histVars == <<last_call, run, run_start, dominant>>
taskVars == <<task_pc, task_current, observed, returned>>
twinVars == <<twin_index, twin_result>>
backoffVars == <<upstream_config, backoff>>
probeVars == <<run_pc, probe_task, join_index, last_probe>>
logVars == <<tokens, runs>>
auxVars == <<backoffVars, probeVars, logVars>>
srvVars == <<sched_pc, now, next_tick, starts, server_pc, signal, connections,
             accepted_after_signal>>
vars == <<keys, strategy, current_index, latency_cache,
          pc, request, req_model, attempt_count, last_error, use_next_key, key_info, attempt,
          upstream_request, upstream_response, response, outcome, sends, timeouts, rotations,
          failed_key, clean, client_return, attempts, tried,
          last_call, run, run_start, dominant,
          sched_pc, now, next_tick, starts, server_pc, signal, connections,
          accepted_after_signal,
          task_pc, task_current, observed, returned, twin_index, twin_result,
          upstream_config, backoff, run_pc, probe_task, join_index, last_probe,
          tokens, runs>>

UsizeModulus == 2 ^ CursorBits

fetch_add_not_stored(c) == c

\* AtomicUsize::fetch_add(1): the value read is current_index; the value stored wraps.
fetch_add(c) == (c + 1) % UsizeModulus

\* KeyPool::get_key_for_model, the filter: the indices of the matching keys, in pool order.
RECURSIVE matching_from(_, _, _)
matching_from(ks, model, i) ==
    IF i >= Len(ks) THEN <<>>
    ELSE IF supports_model(ks[i + 1], model)
         THEN <<i>> \o matching_from(ks, model, i + 1)
         ELSE matching_from(ks, model, i + 1)
matching_keys(ks, model) == matching_from(ks, model, 0)

\* KeyPool::round_robin_selection on a non-empty subset, with the cursor value read.
round_robin_selection(matching, current) ==
    IF matching = <<>> THEN None
    ELSE Some(matching[(current % Len(matching)) + 1])

health_weighted_selection_first(matching, current) ==
    IF matching = <<>> THEN None ELSE Some(matching[1])

\* KeyPool::health_weighted_selection.
health_weighted_selection(matching, current) ==
    IF matching = <<>> THEN None
    ELSE round_robin_selection(matching, current)

\* KeyPool::least_latency_selection: the loop over the subset.
RECURSIVE least_latency_loop(_, _, _, _, _)
least_latency_loop(matching, cache, j, best_key, best_latency) ==
    IF j > Len(matching) THEN best_key
    ELSE LET index == matching[j]
             entry == cache[index]
         IN  IF IsSome(entry) /\ Unwrap(entry) < best_latency
             THEN least_latency_loop(matching, cache, j + 1, index, Unwrap(entry))
             ELSE least_latency_loop(matching, cache, j + 1, best_key, best_latency)
\* The loop with its comparison reversed: the largest cached sample wins.
RECURSIVE least_latency_reversed_loop(_, _, _, _, _)
least_latency_reversed_loop(matching, cache, j, best_key, best_latency) ==
    IF j > Len(matching) THEN best_key
    ELSE LET index == matching[j]
             entry == cache[index]
         IN  IF IsSome(entry) /\ Unwrap(entry) > best_latency
             THEN least_latency_reversed_loop(matching, cache, j + 1, index, Unwrap(entry))
             ELSE least_latency_reversed_loop(matching, cache, j + 1, best_key, best_latency)
least_latency_reversed(matching, cache) ==
    IF matching = <<>> THEN None
    ELSE Some(least_latency_reversed_loop(matching, cache, 1, matching[1], 0))
\* The loop with <= for <: among equal samples the last one wins.
RECURSIVE least_latency_last_tie_loop(_, _, _, _, _)
least_latency_last_tie_loop(matching, cache, j, best_key, best_latency) ==
    IF j > Len(matching) THEN best_key
    ELSE LET index == matching[j]
             entry == cache[index]
         IN  IF IsSome(entry) /\ Unwrap(entry) <= best_latency
             THEN least_latency_last_tie_loop(matching, cache, j + 1, index, Unwrap(entry))
             ELSE least_latency_last_tie_loop(matching, cache, j + 1, best_key, best_latency)

least_latency_last_tie(matching, cache) ==
    IF matching = <<>> THEN None
    ELSE Some(least_latency_last_tie_loop(matching, cache, 1, matching[1], SecsMax))

least_latency_selection_first(matching, cache) ==
    IF matching = <<>> THEN None ELSE Some(matching[1])

least_latency_selection(matching, cache) ==
    IF matching = <<>> THEN None
    ELSE Some(least_latency_loop(matching, cache, 1, matching[1], SecsMax))

\* Whether the strategy's selection reads and advances the cursor.
uses_cursor(strat) == strat # "LeastLatency"

\* A selection that consults the latency cache under every strategy.
get_key_for_model_by_latency(ks, strat, cache, current, model) ==
    least_latency_selection(matching_keys(ks, model), cache)

\* KeyPool::get_key_for_model: the index returned, given the cursor value read.
get_key_for_model(ks, strat, cache, current, model) ==
    LET matching == matching_keys(ks, model)
    IN  IF matching = <<>> THEN None
        ELSE CASE strat = "RoundRobin" -> round_robin_selection(matching, current)
               [] strat = "RoundRobinHealthWeighted" -> health_weighted_selection(matching, current)
               [] strat = "LeastLatency" -> least_latency_selection(matching, cache)

\* The cursor after get_key_for_model: advanced only when a round-robin selection ran.
cursor_after_get_key_for_model(ks, strat, current, model) ==
    IF matching_keys(ks, model) # <<>> /\ uses_cursor(strat)
    THEN fetch_add(current) ELSE current

\* get_next_key without the emptiness test and the reduction modulo the length.
get_next_key_no_modulo(ks, current) == Some(current)
\* KeyPool::get_next_key.
get_next_key(ks, current) ==
    IF Len(ks) = 0 THEN None
    ELSE Some(current % Len(ks))
cursor_after_get_next_key(ks, current) ==
    IF Len(ks) = 0 THEN current ELSE fetch_add(current)

\* KeyPool::update_latency: the cache after insert(key_index, (latency, now)).
update_latency(cache, key_index, latency) ==
    [cache EXCEPT ![key_index] = Some(latency)]

NoCall == [op |-> "none", model |-> "", result |-> None, cursor |-> 0]

\* KeyPool::new.
InitPoolState ==
    /\ keys \in Pools
    /\ \E s \in StrategyStrings : strategy = RotationStrategyFrom(s)
    /\ current_index = 0
    /\ latency_cache = [i \in 0..(Len(keys) - 1) |-> None]

InitHist ==
    /\ last_call = NoCall
    /\ run = <<>>
    /\ run_start = 0
    /\ dominant = [m \in ModelNames |-> None]

\* The tasks that call the pool: none is inside a call.
Tasks == 1..MaxTasks
InitTasks ==
    /\ task_pc = [t \in Tasks |-> "idle"]
    /\ task_current = [t \in Tasks |-> 0]
    /\ observed = <<>>
    /\ returned = <<>>

\* The second pool's cursor after KeyPool::new.
InitTwin ==
    /\ twin_index = 0
    /\ twin_result = None

\* No backoff wait has been computed; the settings are fixed where the backoff is not
\* looked at.
NoBackoff == [attempt |-> 0, outcome |-> "none", wait |-> 0]
FixedConfig ==
    [retry_initial_backoff_ms |-> 1, retry_max_backoff_ms |-> 2, overflow_checks |-> FALSE]
\* No run of update_all_latencies has started.
NoTask == [state |-> "none", latency |-> 0]
InitProbeRun ==
    /\ run_pc = "idle"
    /\ probe_task = [i \in 0..(Len(keys) - 1) |-> NoTask]
    /\ join_index = 0
    /\ last_probe = [i \in 0..(Len(keys) - 1) |-> "none"]

\* The two runs of the program that are compared: both are given the same tokens where
\* the logs are not looked at, and no request has arrived in either.
Runs == {1, 2}
NoRun ==
    [pc |-> "idle", model |-> "", attempt_count |-> 0, attempt |-> 0, use_next_key |-> FALSE,
     cursor |-> 0, key |-> None, emitted |-> <<>>]
InitRunsIdle == runs = [r \in Runs |-> NoRun]
InitLogs ==
    /\ tokens = [r \in Runs |-> [i \in 0..(Len(keys) - 1) |-> "sk-a"]]
    /\ InitRunsIdle

InitAux ==
    /\ upstream_config = FixedConfig
    /\ backoff = NoBackoff
    /\ InitProbeRun
    /\ InitLogs

\* main has spawned the latency updater and serves; nothing has happened yet.
InitServer ==
    /\ sched_pc = "spawned"
    /\ now = 0
    /\ next_tick = 0
    /\ starts = <<>>
    /\ server_pc = "serving"
    /\ signal = None
    /\ connections = 0
    /\ accepted_after_signal = FALSE

\* No logical request has arrived.
NoRequest == [method |-> "", headers |-> <<>>, body |-> <<>>]
InitRequest ==
    /\ pc = "idle"
    /\ request = NoRequest
    /\ req_model = ""
    /\ attempt_count = 0
    /\ last_error = None
    /\ use_next_key = FALSE
    /\ key_info = None
    /\ attempt = 0
    /\ upstream_request = None
    /\ upstream_response = None
    /\ response = None
    /\ outcome = ""
    /\ sends = 0
    /\ timeouts = 0
    /\ rotations = 0
    /\ failed_key = None
    /\ clean = TRUE
    /\ client_return = None
    /\ attempts = 0
    /\ tried = {}

(***************************************************************************)
(* The pool's operations, called by any task.                              *)
(***************************************************************************)
GetKeyForModel(model) ==
    /\ last_call' = [op |-> "get_key_for_model", model |-> model,
                     result |-> get_key_for_model(keys, strategy, latency_cache, current_index, model),
                     cursor |-> current_index]
    /\ current_index' = cursor_after_get_key_for_model(keys, strategy, current_index, model)
    /\ UNCHANGED <<keys, strategy, latency_cache, run, run_start, dominant, reqVars, srvVars, taskVars, twinVars, auxVars>>

GetNextKey ==
    /\ last_call' = [op |-> "get_next_key", model |-> "",
                     result |-> get_next_key(keys, current_index),
                     cursor |-> current_index]
    /\ current_index' = cursor_after_get_next_key(keys, current_index)
    /\ UNCHANGED <<keys, strategy, latency_cache, run, run_start, dominant, reqVars, srvVars, taskVars, twinVars, auxVars>>

UpdateLatency(key_index, latency) ==
    /\ latency_cache' = update_latency(latency_cache, key_index, latency)
    /\ last_call' = [op |-> "update_latency", model |-> "", result |-> Some(key_index), cursor |-> current_index]
    /\ UNCHANGED <<keys, strategy, current_index, run, run_start, dominant, reqVars, srvVars, taskVars, twinVars, auxVars>>

NextPool ==
    \/ \E model \in ModelNames : GetKeyForModel(model)
    \/ GetNextKey
    \/ \E i \in DOMAIN latency_cache, d \in Durations : UpdateLatency(i, d)

\* A pool just built by KeyPool::new, before any call.
InitPool ==
    /\ InitPoolState
    /\ InitHist
    /\ InitRequest
    /\ InitServer
    /\ InitTasks
    /\ InitTwin
    /\ InitAux

SpecPool == InitPool /\ [][NextPool]_vars

\* C5: every credential get_key_for_model(m) returns, under any strategy, lists m or "others".
C5_SelectionSupportsModel ==
    (last_call.op = "get_key_for_model" /\ IsSome(last_call.result))
        => (\E m \in keys[Unwrap(last_call.result) + 1] : m = last_call.model \/ m = Others)

C5_Witness ==
    /\ last_call.op = "get_key_for_model"
    /\ IsSome(last_call.result)
    /\ last_call.model = "claude-2"
    /\ \E i \in 1..Len(keys) : keys[i] = {"gpt-3.5-turbo"}
    /\ strategy = "LeastLatency"
    /\ \E i \in DOMAIN latency_cache : IsSome(latency_cache[i])

(***************************************************************************)
(* Sequential get_next_key calls: a run of consecutive calls, which any    *)
(* other selection ends.                                                   *)
(***************************************************************************)
MaxRun == 2 * MaxKeys

Count(s, x) == Cardinality({j \in 1..Len(s) : s[j] = x})

SequentialGetNextKey ==
    /\ Len(keys) > 0
    /\ LET fresh == run = <<>> \/ Len(run) >= MaxRun
       IN  /\ run' = (IF fresh THEN <<>> ELSE run) \o get_next_key(keys, current_index)
           /\ run_start' = IF fresh THEN current_index ELSE run_start
    /\ current_index' = cursor_after_get_next_key(keys, current_index)
    /\ UNCHANGED <<keys, strategy, latency_cache, last_call, dominant, reqVars, srvVars, taskVars, twinVars, auxVars>>

InterleavedGetKeyForModel(model) ==
    /\ current_index' = cursor_after_get_key_for_model(keys, strategy, current_index, model)
    /\ run' = <<>>
    /\ run_start' = 0
    /\ UNCHANGED <<keys, strategy, latency_cache, last_call, dominant, reqVars, srvVars, taskVars, twinVars, auxVars>>

NextFair ==
    \/ SequentialGetNextKey
    \/ \E model \in ModelNames : InterleavedGetKeyForModel(model)

SpecFair == InitPool /\ [][NextFair]_vars

\* C7: over k*n sequential get_next_key calls on a pool of n credentials, from any cursor
\* value, each credential is returned exactly k times.
C7_RoundRobinFairness ==
    (Len(keys) > 0 /\ Len(run) > 0 /\ Len(run) % Len(keys) = 0)
        => \A i \in 0..(Len(keys) - 1) : Count(run, i) = Len(run) \div Len(keys)

\* The same with the run's reads kept below the machine word's wrap.
FairnessWithoutWrap ==
    (Len(keys) > 0 /\ Len(run) > 0 /\ Len(run) % Len(keys) = 0
        /\ run_start + Len(run) <= UsizeModulus)
        => \A i \in 0..(Len(keys) - 1) : Count(run, i) = Len(run) \div Len(keys)

(***************************************************************************)
(* The latency cache under LeastLatency.                                   *)
(***************************************************************************)
\* The cached sample of index i, with no sample standing for +infinity.
SampleOrInfinity(cache, i) == IF IsSome(cache[i]) THEN Unwrap(cache[i]) ELSE SecsMax + 1

InSubset(ks, model, i) == \E j \in 1..Len(matching_keys(ks, model)) : matching_keys(ks, model)[j] = i

\* Index i holds, in the matching subset of the model, a sample strictly below every other's.
StrictMinimum(ks, cache, model, i) ==
    /\ InSubset(ks, model, i)
    /\ IsSome(cache[i])
    /\ \A j \in DOMAIN cache :
          (j # i /\ InSubset(ks, model, j)) => Unwrap(cache[i]) < SampleOrInfinity(cache, j)

InitLatency ==
    /\ InitPoolState
    /\ strategy = "LeastLatency"
    /\ InitHist
    /\ InitRequest
    /\ InitServer
    /\ InitTasks
    /\ InitTwin
    /\ InitAux

\* update_latency, with the history of which credential was last written as a strict
\* minimum of each model's subset; a smaller sample written later ends it.
TrackedUpdateLatency(key_index, latency) ==
    /\ latency_cache' = update_latency(latency_cache, key_index, latency)
    /\ last_call' = [op |-> "update_latency", model |-> "", result |-> Some(key_index), cursor |-> current_index]
    /\ dominant' = [m \in ModelNames |->
          IF latency \in Measured /\ StrictMinimum(keys, latency_cache', m, key_index)
          THEN Some([key |-> key_index, sample |-> latency])
          ELSE IF IsSome(dominant[m]) /\ latency < Unwrap(dominant[m]).sample
               THEN None
               ELSE dominant[m]]
    /\ UNCHANGED <<keys, strategy, current_index, run, run_start, reqVars, srvVars, taskVars, twinVars, auxVars>>

NextLatency ==
    \/ \E model \in ModelNames : GetKeyForModel(model)
    \/ \E i \in DOMAIN latency_cache, d \in Durations : TrackedUpdateLatency(i, d)

SpecLatency == InitLatency /\ [][NextLatency]_vars

HeaderNames == {"authorization", "content-type", "set-cookie"}
EmptyHeaders == [n \in HeaderNames |-> <<>>]

\* HeaderMap::insert: the value replaces every value of the name.
header_insert(h, name, value) == [h EXCEPT ![name] = <<value>>]
\* HeaderMap::append, which RequestBuilder::header and response::Builder::header use.
header_append(h, name, value) == [h EXCEPT ![name] = Append(@, value)]

\* The loop of convert_axum_headers_to_reqwest and convert_reqwest_headers_to_axum:
\* every (name, value) entry of the source map is inserted into the new map.
RECURSIVE insert_entries(_, _, _)
insert_entries(dst, name, values) ==
    IF values = <<>> THEN dst
    ELSE insert_entries(header_insert(dst, name, Head(values)), name, Tail(values))
convert_axum_headers_to_reqwest(h) ==
    [n \in HeaderNames |-> insert_entries(EmptyHeaders, n, h[n])[n]]
convert_reqwest_headers_to_axum(h) ==
    [n \in HeaderNames |-> insert_entries(EmptyHeaders, n, h[n])[n]]

\* RequestBuilder::headers (reqwest's replace_headers): for every name of src, its first
\* value is inserted and the following ones appended.
replace_headers(dst, src) ==
    [n \in HeaderNames |-> IF src[n] = <<>> THEN dst[n] ELSE src[n]]

\* The secret of the credential at an index, as the Authorization value made from it.
BearerOf(index) == "Bearer sk-key-" \o ToString(index)
ClientAuthorization == "Bearer client-token"

\* The header sets an incoming request carries.
IncomingHeaderMaps ==
    { [EmptyHeaders EXCEPT !["content-type"] = <<"application/json">>],
      [EmptyHeaders EXCEPT !["content-type"] = <<"application/json">>,
                           !["authorization"] = <<ClientAuthorization>>] }

\* The header sets an upstream response carries.
UpstreamHeaderMaps ==
    { [EmptyHeaders EXCEPT !["content-type"] = <<"text/event-stream">>],
      [EmptyHeaders EXCEPT !["content-type"] = <<"application/json">>,
                           !["set-cookie"] = <<"a=1", "b=2">>] }

(***************************************************************************)
(* The incoming request: method and body.  A body is what its bytes hold   *)
(* and how it reaches the handler.                                         *)
(***************************************************************************)
\* delivery "read": to_bytes returns the bytes; "declared_over_limit": the Content-Length
\* is above the limit of RequestBodyLimitLayer; "read_fails": the body, of no declared
\* length, passes the limit while to_bytes reads it, and to_bytes returns an error.
Methods == {"POST", "GET"}
Bodies ==
    {[delivery |-> "read", content |-> "empty", model |-> ""],
     [delivery |-> "read", content |-> "not_json", model |-> ""],
     [delivery |-> "read", content |-> "json_without_model", model |-> ""],
     [delivery |-> "read", content |-> "json_model_not_string", model |-> ""],
     [delivery |-> "declared_over_limit", content |-> "not_json", model |-> ""],
     [delivery |-> "read_fails", content |-> "not_json", model |-> ""]}
    \cup {[delivery |-> "read", content |-> "json", model |-> m] : m \in ModelNames}

body_is_empty(body) == body.content = "empty"

(***************************************************************************)
(* ProxyError (error.rs).                                                  *)
(***************************************************************************)
Error(kind, source) == [kind |-> kind, source |-> source]

\* reqwest::Error of a send: what is_timeout, is_connect and is_request answer.
TransportErrors == {"connect", "timeout", "redirect"}
is_timeout(source) == source = "timeout"
is_connect(source) == source = "connect"
is_request(source) == source \in {"connect", "timeout"}

\* ProxyError::status_code with NoKeyAvailable answered as 503.
status_code_no_key_503(err) ==
    CASE err.kind = "NoKeyAvailable" -> 503
      [] err.kind = "UpstreamFailed" -> IF is_timeout(err.source) THEN 504 ELSE 502
      [] err.kind = "Timeout" -> 504
      [] err.kind = "InvalidJson" -> 400
      [] err.kind = "PayloadTooLarge" -> 413
      [] err.kind = "MethodNotAllowed" -> 405
      [] err.kind = "AllRetriesExhausted" -> 502
      [] OTHER -> 500
\* ProxyError::status_code with the UpstreamFailed arm answering 504 for every source.
status_code_upstream_failed_504(err) ==
    CASE err.kind = "NoKeyAvailable" -> 500
      [] err.kind = "UpstreamFailed" -> 504
      [] err.kind = "Timeout" -> 504
      [] err.kind = "InvalidJson" -> 400
      [] err.kind = "PayloadTooLarge" -> 413
      [] err.kind = "MethodNotAllowed" -> 405
      [] err.kind = "AllRetriesExhausted" -> 502
      [] OTHER -> 500
\* ProxyError::status_code.
status_code(err) ==
    CASE err.kind = "NoKeyAvailable" -> 500
      [] err.kind = "NoKeyFound" -> 500
      [] err.kind = "InvalidApiKey" -> 500
      [] err.kind = "UpstreamFailed" ->
            IF is_timeout(err.source) THEN 504
            ELSE IF is_connect(err.source) THEN 502
            ELSE 502
      [] err.kind = "Timeout" -> 504
      [] err.kind = "RateLimited" -> 429
      [] err.kind = "InvalidJson" -> 400
      [] err.kind = "PayloadTooLarge" -> 413
      [] err.kind = "MethodNotAllowed" -> 405
      [] err.kind = "AllRetriesExhausted" -> 502
      [] err.kind = "Internal" -> 500

\* The #[error(...)] message of each kind (Display); a source's own text is abstract.
to_string(err) ==
    CASE err.kind = "NoKeyAvailable" -> "No API key available for model '" \o err.source \o "'"
      [] err.kind = "UpstreamFailed" -> "Upstream request failed: " \o err.source
      [] err.kind = "Timeout" -> "Request timeout"
      [] err.kind = "InvalidJson" -> "Invalid JSON payload: " \o err.source
      [] err.kind = "PayloadTooLarge" -> "Request body too large"
      [] err.kind = "MethodNotAllowed" -> "Method not allowed"
      [] err.kind = "AllRetriesExhausted" -> "All retries exhausted"
      [] OTHER -> "Internal server error"

JsonHeaders == [EmptyHeaders EXCEPT !["content-type"] = <<"application/json">>]
ErrorBody(message) == [kind |-> "json", error |-> message]
EmptyBody == [kind |-> "empty", error |-> ""]
TextBody == [kind |-> "text", error |-> ""]
StreamBody == [kind |-> "stream", error |-> ""]

\* IntoResponse for ProxyError: (status, Json(ErrorResponse::new(self.to_string()))).
into_response(err) ==
    [status |-> status_code(err), headers |-> JsonHeaders, body |-> ErrorBody(to_string(err))]

(***************************************************************************)
(* UpstreamClient (upstream.rs).                                           *)
(***************************************************************************)
Statuses == {200, 404, 400, 418, 429, 502, 503, 504}

should_retry_status_server_errors_only(status) == status \in {502, 503, 504}
should_retry_status(status) == status \in {429, 418, 502, 503, 504}
should_retry_error(source) == is_connect(source) \/ is_timeout(source) \/ is_request(source)
should_rotate_key_with_503(status) == status \in {429, 418, 502, 400, 503}
should_rotate_key(status) == status \in {429, 418, 502, 400}

\* The request UpstreamClient::request builds for one send: Authorization from the
\* credential, Content-Type for the body, then the headers handed in by the engine.
build_request(index, headers) ==
    LET with_auth == header_append(EmptyHeaders, "authorization", BearerOf(index))
        with_body == header_append(with_auth, "content-type", "application/json")
    IN  [key |-> index, headers |-> replace_headers(with_body, headers)]

(***************************************************************************)
(* ProxyEngine (engine.rs).                                                *)
(***************************************************************************)
\* An extraction that accepts every body and falls back to the sentinel.
extract_model_lenient(body) ==
    IF body.content = "json" THEN [ok |-> TRUE, model |-> body.model]
    ELSE [ok |-> TRUE, model |-> Others]
\* extract_model_from_body: serde_json::from_slice into OpenAIRequest.
extract_model_from_body(body) ==
    IF body.content = "json" THEN [ok |-> TRUE, model |-> body.model]
    ELSE [ok |-> FALSE, model |-> ""]

\* The selection of an attempt, by get_next_key whatever use_next_key says.
select_key_always_next(use_next, ks, strat, cache, current, m) ==
    [key |-> get_next_key(ks, current), cursor |-> cursor_after_get_next_key(ks, current)]
\* The selection of an attempt: get_next_key on retries, get_key_for_model otherwise.
select_key(use_next, ks, strat, cache, current, m) ==
    IF use_next
    THEN [key |-> get_next_key(ks, current), cursor |-> cursor_after_get_next_key(ks, current)]
    ELSE [key |-> get_key_for_model(ks, strat, cache, current, m),
          cursor |-> cursor_after_get_key_for_model(ks, strat, current, m)]

\* convert_response: the status, the converted headers added one by one, a streaming body.
convert_response(upstream) ==
    [status |-> upstream.status,
     headers |-> convert_reqwest_headers_to_axum(upstream.headers),
     body |-> StreamBody]

\* The dispatcher answers and the logical request is over; proxy_request has returned
\* or was dropped, and its locals are gone.
Finish(resp, how) ==
    /\ response' = Some(resp)
    /\ outcome' = how
    /\ pc' = "done"
    /\ attempt_count' = 0
    /\ last_error' = None
    /\ use_next_key' = FALSE
    /\ key_info' = None
    /\ attempt' = 0
    /\ upstream_request' = None
    /\ failed_key' = None

\* A dispatcher that selects a credential before it looks at the method.
ReceiveAfterSelection(method, headers, body) ==
    /\ pc = "idle"
    /\ method # "POST"
    /\ body.delivery = "read"
    /\ request' = [method |-> method, headers |-> headers, body |-> body]
    /\ Finish(into_response(Error("MethodNotAllowed", "")), "rejected")
    /\ req_model' = ""
    /\ current_index' = cursor_after_get_next_key(keys, current_index)
    /\ UNCHANGED <<keys, strategy, latency_cache, upstream_response, sends, timeouts, rotations,
                   clean, client_return, attempts, tried, histVars, srvVars, taskVars, twinVars,
                   auxVars>>

(***************************************************************************)
(* A request arrives on the forwarding route: the body-limit layer, then   *)
(* proxy_request_handler reads the body, handle_request checks the method  *)
(* and proxy_request extracts the model.                                   *)
(***************************************************************************)
Receive(method, headers, body) ==
    /\ pc = "idle"
    /\ request' = [method |-> method, headers |-> headers, body |-> body]
    /\ IF body.delivery = "declared_over_limit"
       THEN /\ Finish([status |-> 413, headers |-> EmptyHeaders, body |-> TextBody], "rejected")
            /\ req_model' = ""
       ELSE IF body.delivery = "read_fails"
       THEN /\ Finish([status |-> 400, headers |-> EmptyHeaders, body |-> EmptyBody], "rejected")
            /\ req_model' = ""
       ELSE IF method # "POST"
       THEN /\ Finish(into_response(Error("MethodNotAllowed", "")), "rejected")
            /\ req_model' = ""
       ELSE IF ~body_is_empty(body) /\ ~extract_model_from_body(body).ok
       THEN /\ Finish(into_response(Error("InvalidJson", "serde")), "rejected")
            /\ req_model' = ""
       ELSE /\ req_model' = (IF body_is_empty(body) THEN Others
                             ELSE extract_model_from_body(body).model)
            /\ attempt_count' = 0
            /\ last_error' = None
            /\ use_next_key' = FALSE
            /\ pc' = "select"
            /\ UNCHANGED <<key_info, attempt, upstream_request, response, outcome, failed_key>>
    /\ UNCHANGED <<upstream_response, sends, timeouts, rotations, clean, client_return, attempts,
                   tried, poolVars, histVars, srvVars, taskVars, twinVars, auxVars>>

\* The head of the attempt loop: the selection of the attempt's credential.
SelectKey ==
    /\ pc = "select"
    /\ LET sel == select_key(use_next_key, keys, strategy, latency_cache, current_index, req_model)
       IN  /\ current_index' = sel.cursor
           /\ IF IsSome(sel.key)
              THEN /\ key_info' = sel.key
                   /\ pc' = "send"
                   /\ attempt' = 0
                   /\ attempts' = attempts + 1
                   /\ tried' = tried \cup {Unwrap(sel.key)}
                   /\ UNCHANGED <<attempt_count, last_error, use_next_key, upstream_request,
                                  response, outcome, failed_key>>
              ELSE /\ Finish(into_response(Error("NoKeyAvailable", req_model)), "failed")
                   /\ UNCHANGED <<attempts, tried>>
    /\ client_return' = None
    /\ UNCHANGED <<keys, strategy, latency_cache, request, req_model, upstream_response,
                   sends, timeouts, rotations, clean, histVars, srvVars, taskVars, twinVars, auxVars>>

\* main gives the dispatcher's TimeoutLayer the duration of the client's per-attempt
\* deadline, and the layer's timer starts first: once a send has run into the per-attempt
\* deadline, the layer's deadline has passed too, and the layer answers at the next point
\* where the engine waits.
DispatcherDeadlinePassed == timeouts > 0

\* One iteration of the loop of UpstreamClient::request: the request is built from the
\* credential and the headers the engine hands in, and sent; a resend comes after the
\* backoff sleep.
SendRequest ==
    /\ pc = "send"
    /\ ~(DispatcherDeadlinePassed /\ attempt > 0)
    /\ upstream_request' = Some(build_request(Unwrap(key_info),
                                              convert_axum_headers_to_reqwest(request.headers)))
    /\ sends' = sends + 1
    /\ pc' = "await"
    /\ UNCHANGED <<request, req_model, attempt_count, last_error, use_next_key, key_info,
                   attempt, upstream_response, response, outcome, timeouts, rotations,
                   failed_key, clean, client_return, attempts, tried, poolVars, histVars,
                   srvVars, taskVars, twinVars, auxVars>>

client_may_retry_once_more(a) == a <= MaxRetries

\* The client's loop runs for attempt in 0..=max_retries: an iteration may be followed by
\* another while attempt < max_retries.
client_may_retry(a) == a < MaxRetries

attempts_remain_one_fewer(count) == count < MaxRetries

\* The engine's loop runs while attempt_count <= max_retries.
attempts_remain(count) == count <= MaxRetries

\* What the client hands back to the engine, and the number of the send it came from.
ClientReturns(kind, status) ==
    client_return' = Some([kind |-> kind, status |-> status, send |-> attempt + 1])

ClientRetries_without_awaiting ==
    /\ attempt' = attempt + 1
    /\ pc' = "send"
    /\ UNCHANGED <<attempt_count, last_error, use_next_key, key_info, response, outcome,
                   rotations, failed_key, client_return, upstream_request>>

\* The client retries: the next iteration of its loop, on the same credential.
ClientRetries ==
    /\ attempt' = attempt + 1
    /\ pc' = "send"
    /\ upstream_request' = None
    /\ UNCHANGED <<attempt_count, last_error, use_next_key, key_info, response, outcome,
                   rotations, failed_key, client_return>>

exhaustion_error_without_last(last) == Error("AllRetriesExhausted", "")

\* Past the loop: last_error.unwrap_or(ProxyError::AllRetriesExhausted).
exhaustion_error(last) ==
    IF IsSome(last) THEN Unwrap(last) ELSE Error("AllRetriesExhausted", "")

\* The engine's handling of a failed attempt: the error is recorded, the next selection
\* is get_next_key, and the loop goes on while attempt_count <= max_retries; past it the
\* engine returns last_error, or AllRetriesExhausted when there is none.
EngineAttemptFailed(err) ==
    /\ rotations' = (IF err.source = "status" THEN rotations + 1 ELSE rotations)
    /\ IF attempts_remain(attempt_count + 1)
       THEN /\ last_error' = Some(err)
            /\ attempt_count' = attempt_count + 1
            /\ use_next_key' = TRUE
            /\ failed_key' = (IF err.source = "status" THEN key_info ELSE None)
            /\ pc' = "select"
            /\ upstream_request' = None
            /\ UNCHANGED <<key_info, attempt, response, outcome>>
       ELSE Finish(into_response(exhaustion_error(Some(err))), "failed")

\* The send gets a response.
UpstreamResponds(status, headers) ==
    /\ pc = "await"
    /\ ~DispatcherDeadlinePassed
    /\ IF should_retry_status(status) /\ client_may_retry(attempt)
       THEN /\ ClientRetries
            /\ clean' = (clean /\ should_rotate_key(status))
            /\ UNCHANGED <<upstream_response, rotations>>
       ELSE IF should_rotate_key(status)
       THEN /\ ClientReturns("response", status)
            /\ EngineAttemptFailed(Error("UpstreamFailed", "status"))
            /\ UNCHANGED <<upstream_response, clean>>
       ELSE /\ ClientReturns("response", status)
            /\ upstream_response' = Some([status |-> status, headers |-> headers])
            /\ Finish(convert_response([status |-> status, headers |-> headers]), "relayed")
            /\ UNCHANGED <<rotations, clean>>
    /\ UNCHANGED <<request, req_model, sends, timeouts, attempts, tried, poolVars, histVars,
                   srvVars, taskVars, twinVars, auxVars>>

\* The send fails with a transport error.
UpstreamFails(source) ==
    /\ pc = "await"
    /\ ~DispatcherDeadlinePassed
    /\ clean' = FALSE
    /\ IF should_retry_error(source) /\ client_may_retry(attempt)
       THEN ClientRetries /\ UNCHANGED rotations
       ELSE /\ ClientReturns("error", 0)
            /\ EngineAttemptFailed(Error("UpstreamFailed", source))
    /\ UNCHANGED <<request, req_model, upstream_response, sends, timeouts, attempts, tried,
                   poolVars, histVars, srvVars, taskVars, twinVars, auxVars>>

\* The send runs into the per-attempt deadline (tokio's timeout).
UpstreamTimesOut ==
    /\ pc = "await"
    /\ ~DispatcherDeadlinePassed
    /\ clean' = FALSE
    /\ timeouts' = timeouts + 1
    /\ IF client_may_retry(attempt)
       THEN ClientRetries /\ UNCHANGED rotations
       ELSE /\ ClientReturns("error", 0)
            /\ EngineAttemptFailed(Error("Timeout", ""))
    /\ UNCHANGED <<request, req_model, upstream_response, sends, attempts, tried, poolVars,
                   histVars, srvVars, taskVars, twinVars, auxVars>>

\* The dispatcher's TimeoutLayer fires while the engine waits, for the upstream's answer
\* or in the client's backoff sleep before a resend: the engine's future is dropped and
\* the layer answers 408.
DispatcherTimeout ==
    /\ pc = "await" \/ (pc = "send" /\ attempt > 0)
    /\ Finish([status |-> 408, headers |-> EmptyHeaders, body |-> EmptyBody], "timed_out")
    /\ UNCHANGED <<request, req_model, upstream_response, sends, timeouts, rotations, clean,
                   client_return, attempts, tried, poolVars, histVars, srvVars, taskVars, twinVars, auxVars>>

\* A selection made by another request's task.
ConcurrentGetNextKey ==
    /\ current_index' = cursor_after_get_next_key(keys, current_index)
    /\ UNCHANGED <<keys, strategy, latency_cache, reqVars, histVars, srvVars, taskVars, twinVars, auxVars>>

\* The pools the engine is run on: none, one or two credentials.
EnginePools == {p \in Pools : Len(p) <= 2}

InitSpec ==
    /\ InitPoolState
    /\ keys \in EnginePools
    /\ InitHist
    /\ InitRequest
    /\ InitServer
    /\ InitTasks
    /\ InitTwin
    /\ InitAux

Next ==
    \/ \E method \in Methods, headers \in IncomingHeaderMaps, body \in Bodies :
          Receive(method, headers, body)
    \/ SelectKey
    \/ SendRequest
    \/ \E status \in Statuses, headers \in UpstreamHeaderMaps : UpstreamResponds(status, headers)
    \/ \E source \in TransportErrors : UpstreamFails(source)
    \/ UpstreamTimesOut
    \/ DispatcherTimeout
    \/ ConcurrentGetNextKey
    \/ \E m \in ModelNames : InterleavedGetKeyForModel(m)

Spec == InitSpec /\ [][Next]_vars

(***************************************************************************)
(* Properties of the engine's handling of one logical request.             *)
(***************************************************************************)
\* The credential of the attempt under way.
AttemptKey == keys[Unwrap(key_info) + 1]

\* C1: every upstream HTTP request carries Authorization = "Bearer <token of the selected
\* credential>", whatever headers the incoming request carried.
C1_AuthorizationIsCredentialToken ==
    IsSome(upstream_request)
        => Unwrap(upstream_request).headers["authorization"]
               = <<BearerOf(Unwrap(upstream_request).key)>>

\* C2: a logical request that observes r <= max_retries rotate-set responses and then a
\* terminal one makes exactly r + 1 upstream calls, and one whose every response is in the
\* rotate set makes exactly max_retries + 1 upstream calls before it fails. Every call gets
\* one response, so the first half is the count of the responses; the second half is:
C2_ExhaustionCallsAreMaxRetriesPlusOne ==
    (outcome = "failed" /\ clean /\ sends > 0) => sends = MaxRetries + 1

\* C3: an upstream response outside the rotate set that reaches the engine is the result:
\* the client receives its status and its headers unchanged.
C3_RelayedUnchanged ==
    outcome = "relayed"
        => /\ Unwrap(response).status = Unwrap(upstream_response).status
           /\ Unwrap(response).headers = Unwrap(upstream_response).headers

\* C4: after an attempt that ended with a rotate-set status, in a pool of at least two
\* credentials, the next attempt uses a credential other than the one that failed.
C4_NextAttemptRotatesAway ==
    (pc \in {"send", "await"} /\ IsSome(failed_key) /\ Len(keys) >= 2)
        => key_info # failed_key

\* C6 as stated: no attempt of a request, first or retry, is sent to a credential that
\* supports neither the request's model nor "others".
C6_EveryAttemptSupportsModel ==
    pc = "await" => supports_model(AttemptKey, req_model)

\* C6 as amended: the first attempt of a request is sent to a credential that supports
\* the request's model or "others".
C6_FirstAttemptSupportsModel ==
    (pc = "await" /\ attempt_count = 0) => supports_model(AttemptKey, req_model)

C6_Witness ==
    /\ pc = "await"
    /\ attempt_count = 0
    /\ req_model = "claude-2"
    /\ \E i \in 1..Len(keys) : ~supports_model(keys[i], req_model)
    /\ current_index > 0

\* C9: a request whose every attempt ended with a rotate-set status until the attempts
\* ran out is answered with HTTP 502.
C9_ExhaustionIs502 ==
    (outcome = "failed" /\ rotations = MaxRetries + 1) => Unwrap(response).status = 502

C9_Witness ==
    /\ outcome = "failed"
    /\ rotations = MaxRetries + 1
    /\ Len(keys) = 1
    /\ sends = (MaxRetries + 1) * (MaxRetries + 1)

\* C10: every request to the forwarding route whose method is not POST is answered with
\* HTTP 405 and the body {"error":"Method not allowed"}.
C10_NonPostIs405 ==
    (pc = "done" /\ request.method # "POST")
        => /\ Unwrap(response).status = 405
           /\ Unwrap(response).body = ErrorBody("Method not allowed")


(***************************************************************************)
(* Properties of the dispatcher's answers.                                 *)
(***************************************************************************)
\* s contains t.
Contains(s, t) == \E i \in 1..(Len(s) - Len(t) + 1) : SubSeq(s, i, i + Len(t) - 1) = t

\* The request is a POST whose non-empty body is not a JSON object with a string model.
PostWithoutModel ==
    /\ request.method = "POST"
    /\ request.body.content \in {"not_json", "json_without_model", "json_model_not_string"}

\* Answered 400 with an error message that contains "Invalid JSON".
AnsweredInvalidJson ==
    /\ Unwrap(response).status = 400
    /\ Unwrap(response).body.kind = "json"
    /\ Contains(Unwrap(response).body.error, "Invalid JSON")

\* C11 as stated: a POST with a non-empty body that is not valid JSON, or JSON without a
\* string model, is answered 400 with a message containing "Invalid JSON"; a POST with an
\* empty body is routed with the model "others".
C11_MalformedBodyIs400 ==
    /\ (pc = "done" /\ PostWithoutModel) => AnsweredInvalidJson
    /\ (pc # "idle" /\ request.method = "POST" /\ request.body.content = "empty")
           => (req_model = Others /\ outcome # "rejected")

\* C11 as amended: the same for a body that was read within the size cap.
C11_MalformedReadBodyIs400 ==
    /\ (pc = "done" /\ PostWithoutModel /\ request.body.delivery = "read")
           => AnsweredInvalidJson
    /\ (pc # "idle" /\ request.method = "POST" /\ request.body.content = "empty")
           => (req_model = Others /\ outcome # "rejected")

C11_Witness ==
    /\ pc = "done"
    /\ request.method = "POST"
    /\ request.body = [delivery |-> "read", content |-> "json_without_model", model |-> ""]
    /\ Unwrap(response).status = 400


\* The body is over the configured size cap: by its declared length, or as found while
\* it is read.
BodyOverCap == request.body.delivery \in {"declared_over_limit", "read_fails"}

\* C12: every request to the forwarding route whose body exceeds the size cap is answered
\* with HTTP 413, whether the length is declared up front or found while the body is read.
C12_OversizedBodyIs413 ==
    (pc = "done" /\ BodyOverCap) => Unwrap(response).status = 413


\* No credential of the pool lists the request's model or "others".
NoCredentialSupports == \A i \in 1..Len(keys) : ~supports_model(keys[i], req_model)

\* C13: when no credential of the pool supports the request's model, proxy_request fails
\* at once with NoKeyAvailable, answered as HTTP 500, and no upstream call is made.
C13_NoKeyIs500WithoutCall ==
    (pc # "idle" /\ outcome # "rejected" /\ NoCredentialSupports)
        => /\ sends = 0
           /\ pc \in {"select", "done"}
           /\ pc = "done" => /\ outcome = "failed"
                             /\ Unwrap(response).status = 500
                             /\ Unwrap(response).body
                                  = ErrorBody("No API key available for model '"
                                              \o req_model \o "'")

C13_Witness ==
    /\ pc = "done"
    /\ outcome = "failed"
    /\ Len(keys) = 2
    /\ NoCredentialSupports
    /\ current_index > 0


\* The answer was produced by the proxy itself as an error: a rejection, a failure of
\* proxy_request or the dispatcher's timeout.
ErrorAnswer == pc = "done" /\ outcome \in {"rejected", "failed", "timed_out"}

\* C14: every error response produced for the forwarding route carries a JSON body of
\* shape {"error": "<message>"}.
C14_ErrorBodyIsJsonEnvelope ==
    ErrorAnswer => /\ Unwrap(response).body.kind = "json"
                   /\ Unwrap(response).headers["content-type"] = <<"application/json">>


\* C15: when every upstream attempt of a request runs into the per-attempt deadline, the
\* client receives HTTP 504, the dispatcher's timeout being the upstream request timeout.
C15_AllAttemptsTimedOutIs504 ==
    (pc = "done" /\ sends > 0 /\ timeouts = sends) => Unwrap(response).status = 504


(***************************************************************************)
(* The latency probes (update_all_latencies, measure_key_latency).         *)
(***************************************************************************)
\* How the HEAD request of a probe ends: a response, a transport error, or the probe's
\* own five-second timeout.
ProbeOutcomes == {"ok", "http_error", "timeout"}

\* measure_key_latency: the elapsed time of an answered probe, and
\* Duration::from_secs(u64::MAX) for a failed one.
measure_key_latency(probe, elapsed) == IF probe = "ok" THEN elapsed ELSE SecsMax

\* One task of update_all_latencies is joined: its (index, latency) goes to update_latency.
ProbeJoined(index, probe, elapsed) ==
    /\ latency_cache' = update_latency(latency_cache, index, measure_key_latency(probe, elapsed))
    /\ last_call' = [op |-> "probe", model |-> "", result |-> Some(index),
                     cursor |-> current_index, probe |-> probe,
                     previous |-> latency_cache[index]]
    /\ UNCHANGED <<keys, strategy, current_index, run, run_start, dominant, reqVars, srvVars, taskVars, twinVars, auxVars>>

NextProbe ==
    \/ \E i \in DOMAIN latency_cache, p \in ProbeOutcomes, d \in Measured : ProbeJoined(i, p, d)
    \/ \E model \in ModelNames : GetKeyForModel(model)

SpecProbe == InitPool /\ [][NextProbe]_vars

\* C16: a probe that fails writes nothing to the latency cache: the entry of its index,
\* present or absent, is what it was before the probe.
C16_FailedProbeWritesNothing ==
    (last_call.op = "probe" /\ last_call.probe # "ok")
        => latency_cache[Unwrap(last_call.result)] = last_call.previous


(***************************************************************************)
(* main: the latency updater task (start_latency_updater) and the server   *)
(* with its graceful shutdown (axum::serve, shutdown_signal).              *)
(***************************************************************************)
\* The period of the updater's interval, in seconds.
Period == 60
\* The timeout of one probe, in seconds: no run of update_all_latencies takes longer.
ProbeTimeout == 5
\* The runs of update_all_latencies followed.
MaxRuns == 4
\* The connections open at once.
MaxConnections == 2

RunDurations == 0..ProbeTimeout
\* server.graceful_shutdown_seconds: none, or the default.
GracePeriods == {0, 10}

Max(a, b) == IF a >= b THEN a ELSE b

\* The task starts: the initial update_all_latencies begins.
StartupRunStarts ==
    /\ sched_pc = "spawned"
    /\ server_pc # "exited"
    /\ starts' = Append(starts, now)
    /\ sched_pc' = "startup_run"
    /\ UNCHANGED <<now, next_tick, server_pc, signal, connections, accepted_after_signal,
                   poolVars, reqVars, histVars, taskVars, twinVars, auxVars>>

\* update_all_latencies returns after d seconds.  After the startup run the interval is
\* created: tokio's interval completes its first tick at once.
RunCompletes(d) ==
    /\ sched_pc \in {"startup_run", "run"}
    /\ server_pc # "exited"
    /\ now' = now + d
    /\ next_tick' = (IF sched_pc = "startup_run" THEN now' ELSE next_tick)
    /\ sched_pc' = "tick"
    /\ UNCHANGED <<starts, server_pc, signal, connections, accepted_after_signal,
                   poolVars, reqVars, histVars, taskVars, twinVars, auxVars>>

\* interval.tick().await completes at the tick's deadline, or at once when that has
\* passed; the next deadline is one period after this one.  The next run begins.
TickCompletes ==
    /\ sched_pc = "tick"
    /\ server_pc # "exited"
    /\ Len(starts) < MaxRuns
    /\ now' = Max(now, next_tick)
    /\ next_tick' = next_tick + Period
    /\ starts' = Append(starts, now')
    /\ sched_pc' = "run"
    /\ UNCHANGED <<server_pc, signal, connections, accepted_after_signal,
                   poolVars, reqVars, histVars, taskVars, twinVars, auxVars>>

\* The listener accepts a connection: axum::serve accepts until the future given to
\* with_graceful_shutdown completes.
Accept ==
    /\ server_pc \in {"serving", "grace_sleep"}
    /\ connections < MaxConnections
    /\ connections' = connections + 1
    /\ accepted_after_signal' = (accepted_after_signal \/ IsSome(signal))
    /\ UNCHANGED <<sched_pc, now, next_tick, starts, server_pc, signal,
                   poolVars, reqVars, histVars, taskVars, twinVars, auxVars>>

ConnectionCloses ==
    /\ server_pc # "exited"
    /\ connections > 0
    /\ connections' = connections - 1
    /\ UNCHANGED <<sched_pc, now, next_tick, starts, server_pc, signal, accepted_after_signal,
                   poolVars, reqVars, histVars, taskVars, twinVars, auxVars>>

\* shutdown_signal: Ctrl+C or SIGTERM arrives; with a grace period the future then sleeps
\* for it before it completes.
ShutdownSignal(kind, grace_period) ==
    /\ server_pc = "serving"
    /\ signal' = Some(kind)
    /\ server_pc' = (IF grace_period > 0 THEN "grace_sleep" ELSE "draining")
    /\ UNCHANGED <<sched_pc, now, next_tick, starts, connections, accepted_after_signal,
                   poolVars, reqVars, histVars, taskVars, twinVars, auxVars>>

\* The sleep of shutdown_signal ends: the future completes and the server stops accepting.
GraceElapsed ==
    /\ server_pc = "grace_sleep"
    /\ server_pc' = "draining"
    /\ UNCHANGED <<sched_pc, now, next_tick, starts, signal, connections,
                   accepted_after_signal, poolVars, reqVars, histVars, taskVars, twinVars, auxVars>>

\* The open connections are gone: axum::serve returns and main ends.
ServerExits ==
    /\ server_pc = "draining"
    /\ connections = 0
    /\ server_pc' = "exited"
    /\ UNCHANGED <<sched_pc, now, next_tick, starts, signal, connections,
                   accepted_after_signal, poolVars, reqVars, histVars, taskVars, twinVars, auxVars>>

NextServer ==
    \/ StartupRunStarts
    \/ \E d \in RunDurations : RunCompletes(d)
    \/ TickCompletes
    \/ Accept
    \/ ConnectionCloses
    \/ \E kind \in {"ctrl_c", "sigterm"}, g \in GracePeriods : ShutdownSignal(kind, g)
    \/ GraceElapsed
    \/ ServerExits

SpecServer == InitPool /\ [][NextServer]_vars

\* C17: the probe of all credentials runs once at startup and then once per period: the
\* first periodic run starts one full period after the startup run, and consecutive runs
\* are one period apart.
C17_RunsOnePeriodApart ==
    \A k \in 1..(Len(starts) - 1) : starts[k + 1] - starts[k] = Period

\* C20: once a shutdown signal has been received, the server accepts no new connection.
C20_NoAcceptAfterSignal ==
    IsSome(signal) => ~accepted_after_signal


(***************************************************************************)
(* Properties of the pool's cursor and of the indices it yields.           *)
(***************************************************************************)
\* The last call was a selection.
LastCallSelected == last_call.op \in {"get_key_for_model", "get_next_key"}

\* C18: the round-robin cursor never decreases: after any selection the cursor is at
\* least the value that selection read, so every value read is at least every value
\* read before it.
C18_CursorNeverDecreases ==
    LastCallSelected => current_index >= last_call.cursor

\* C19: every credential get_key_for_model or get_next_key returns is an element of the
\* pool's sequence, and on an empty pool both return nothing.
C19_SelectionWithinPool ==
    LastCallSelected
        => /\ IsSome(last_call.result) => Unwrap(last_call.result) \in 0..(Len(keys) - 1)
           /\ Len(keys) = 0 => last_call.result = None

C19_Witness ==
    /\ last_call.op = "get_next_key"
    /\ IsSome(last_call.result)
    /\ last_call.cursor >= Len(keys)
    /\ Len(keys) = MaxKeys


\* C21: after a shutdown signal the server exits within the grace period even when an
\* in-flight request has not completed: once the grace period is over, no open
\* connection is waited for.
C21_NoWaitPastGracePeriod ==
    server_pc = "draining" => connections = 0


(***************************************************************************)
(* The retry layers: the client's loop on one credential, inside the       *)
(* engine's loop over credentials.                                         *)
(***************************************************************************)

C23_UnavailableNeverRotates ==
    (/\ IsSome(client_return)
     /\ Unwrap(client_return).kind = "response"
     /\ Unwrap(client_return).status \in {503, 504}) =>
        /\ Unwrap(client_return).send = MaxRetries + 1
        /\ pc = "done"
        /\ outcome = "relayed"
        /\ Unwrap(response).status = Unwrap(client_return).status
        /\ Unwrap(upstream_response).status = Unwrap(client_return).status

\* A 504 relayed after the client's retries, in an attempt that followed a rotation.
C23_Witness ==
    /\ outcome = "relayed"
    /\ Unwrap(response).status = 504
    /\ IsSome(client_return)
    /\ Unwrap(client_return).send = MaxRetries + 1
    /\ rotations > 0


ClientReturnedError == IsSome(client_return) /\ Unwrap(client_return).kind = "error"

\* C24: when the client returns an error for an attempt and attempt_count <= max_retries
\* holds after the increment, the engine keeps the error to itself and goes on to an
\* attempt whose credential get_next_key chooses; an upstream error reaches the client
\* only after max_retries + 1 attempts.
C24_ErrorSurfacesAfterAllAttempts ==
    ClientReturnedError =>
        /\ pc \in {"select", "done"}
        /\ pc = "select" =>
              /\ use_next_key
              /\ attempt_count \in 1..MaxRetries
              /\ attempts = attempt_count
              /\ IsSome(last_error)
              /\ response = None
        /\ pc = "done" =>
              /\ outcome = "failed"
              /\ attempts = MaxRetries + 1
              /\ Unwrap(response).status \in {502, 504}

\* The error of the last attempt reaches the client after a transport error that the
\* client does not retry ended each attempt at its first send.
C24_Witness ==
    /\ ClientReturnedError
    /\ outcome = "failed"
    /\ attempts = MaxRetries + 1
    /\ sends = MaxRetries + 1
    /\ Cardinality(tried) > 1


(***************************************************************************)
(* One logical request with no selection of another task while it is       *)
(* processed.  Selections made before it arrives leave the cursor at any   *)
(* value.  Every step of the request is bounded in time: the send by the   *)
(* per-attempt deadline, the backoff sleep by its duration, the whole by   *)
(* the dispatcher's timeout layer; hence the weak fairness.                *)
(***************************************************************************)
EarlierGetNextKey ==
    /\ pc = "idle"
    /\ ConcurrentGetNextKey

RequestStep ==
    \/ SelectKey
    \/ SendRequest
    \/ \E status \in Statuses, headers \in UpstreamHeaderMaps : UpstreamResponds(status, headers)
    \/ \E source \in TransportErrors : UpstreamFails(source)
    \/ UpstreamTimesOut
    \/ DispatcherTimeout

NextAlone ==
    \/ EarlierGetNextKey
    \/ \E method \in Methods, headers \in IncomingHeaderMaps, body \in Bodies :
          Receive(method, headers, body)
    \/ SelectKey
    \/ SendRequest
    \/ \E status \in Statuses, headers \in UpstreamHeaderMaps : UpstreamResponds(status, headers)
    \/ \E source \in TransportErrors : UpstreamFails(source)
    \/ UpstreamTimesOut
    \/ DispatcherTimeout

SpecAlone == InitSpec /\ [][NextAlone]_vars /\ WF_vars(RequestStep)

\* C25: one logical request causes at most (max_retries + 1)^2 upstream HTTP requests,
\* at most max_retries + 1 attempts of at most max_retries + 1 sends each, and it always
\* ends with a response or an error.
C25_BoundedAndTerminates ==
    /\ [](/\ sends <= (MaxRetries + 1) * (MaxRetries + 1)
          /\ attempts <= MaxRetries + 1
          /\ attempt <= MaxRetries)
    /\ (pc \in {"select", "send", "await"}) ~> (pc = "done" /\ IsSome(response))

\* A request that ended after (max_retries + 1)^2 sends.
C25_Witness ==
    /\ pc = "done"
    /\ IsSome(response)
    /\ sends = (MaxRetries + 1) * (MaxRetries + 1)
    /\ attempts = MaxRetries + 1


\* C26: with no concurrent selection, a pool of n credentials and max_retries >= n - 1,
\* a request whose every attempt failed has tried every credential that supports its
\* model before the error is returned, whatever the cursor was at the start.
C26_EverySupportingKeyTried ==
    (/\ pc = "done"
     /\ outcome = "failed"
     /\ attempts = MaxRetries + 1
     /\ MaxRetries >= Len(keys) - 1) =>
        \A i \in 0..(Len(keys) - 1) :
            supports_model(keys[i + 1], req_model) => i \in tried


(***************************************************************************)
(* Tasks that call get_next_key concurrently.  A call is two steps: the    *)
(* fetch_add on the shared cursor, which is one atomic read-modify-write,  *)
(* and the task's own computation of the index from the value it read.     *)
(* The calls stop before the cursor would wrap.                            *)
(***************************************************************************)
MaxCalls == UsizeModulus - 1

TaskFetchAdd(t) ==
    /\ task_pc[t] = "idle"
    /\ Len(keys) > 0
    /\ Len(observed) < MaxCalls
    /\ task_current' = [task_current EXCEPT ![t] = current_index]
    /\ current_index' = fetch_add(current_index)
    /\ observed' = Append(observed, current_index)
    /\ task_pc' = [task_pc EXCEPT ![t] = "fetched"]
    /\ UNCHANGED <<keys, strategy, latency_cache, returned, reqVars, histVars, srvVars, twinVars, auxVars>>

TaskReturns(t) ==
    /\ task_pc[t] = "fetched"
    /\ returned' = Append(returned, task_current[t] % Len(keys))
    /\ task_pc' = [task_pc EXCEPT ![t] = "idle"]
    /\ UNCHANGED <<task_current, observed, poolVars, reqVars, histVars, srvVars, twinVars, auxVars>>

InitConcurrent == InitPool /\ keys # <<>>

NextConcurrent ==
    \/ \E t \in Tasks : TaskFetchAdd(t)
    \/ \E t \in Tasks : TaskReturns(t)

SpecConcurrent == InitConcurrent /\ [][NextConcurrent]_vars

\* C27: when get_next_key calls are issued concurrently on a pool of n credentials, with
\* no other selection and no wrap of the counter, no two calls observe the same cursor
\* value, and once k*n calls have returned each credential was returned exactly k times.
C27_ConcurrentCallsShareEvenly ==
    /\ \A i, j \in 1..Len(observed) : i # j => observed[i] # observed[j]
    /\ ((\A t \in Tasks : task_pc[t] = "idle") /\ Len(returned) % Len(keys) = 0) =>
          \A i \in 0..(Len(keys) - 1) : Count(returned, i) * Len(keys) = Len(returned)

\* k*n calls have returned, and two of them returned in the reverse of the order in
\* which they read the cursor.
C27_Witness ==
    /\ \A t \in Tasks : task_pc[t] = "idle"
    /\ Len(keys) >= 2
    /\ Len(returned) = Len(keys)
    /\ returned[1] # observed[1] % Len(keys)


(***************************************************************************)
(* A round-robin pool on whose shared cursor selections for any model and  *)
(* get_next_key calls interleave; get_key_for_model is called again and    *)
(* again for every model.                                                  *)
(***************************************************************************)
InitShared == InitPool /\ strategy = "RoundRobin"

NextShared ==
    \/ \E m \in ModelNames : GetKeyForModel(m)
    \/ GetNextKey

SpecShared ==
    /\ InitShared
    /\ [][NextShared]_vars
    /\ \A m \in ModelNames : WF_vars(GetKeyForModel(m))

Returned(m, i) ==
    /\ last_call.op = "get_key_for_model"
    /\ last_call.model = m
    /\ last_call.result = Some(i)

\* C28: under RoundRobin, when get_key_for_model(m) is called infinitely often, every
\* credential that supports m is returned infinitely often, whatever other selections
\* interleave on the shared cursor.
C28_EverySupportingKeyRecurs ==
    \A m \in ModelNames : \A i \in 0..(MaxKeys - 1) :
        []<>(\/ i >= Len(keys)
             \/ ~supports_model(keys[i + 1], m)
             \/ Returned(m, i))


\* C29: within one logical request at most one upstream HTTP request is in flight at any
\* time: an engine attempt or a client retry starts a send only after the previous send
\* has produced a response, a transport error or a timeout.
C29_OneSendInFlight ==
    /\ pc \in {"select", "send"} => upstream_request = None
    /\ IsSome(upstream_request) <=> pc = "await"
    /\ pc = "await" => Unwrap(upstream_request).key = Unwrap(key_info)

\* A resend is about to start after a retry of the client that followed a retry of the
\* engine: no send is in flight.
C29_Witness ==
    /\ pc = "send"
    /\ attempt > 0
    /\ attempt_count > 0
    /\ sends >= 2
    /\ upstream_request = None


(***************************************************************************)
(* Two pools with the same keys: one built with the strategy string        *)
(* "round_robin_health_weighted" or with a string From does not know, and  *)
(* a second one built with "round_robin".  Every call is made on both.     *)
(***************************************************************************)
InitTwinPools ==
    /\ InitPool
    /\ \E s \in StrategyStrings \ {"round_robin", "least_latency"} :
          strategy = RotationStrategyFrom(s)

TwinGetKeyForModel(model) ==
    /\ last_call' = [op |-> "get_key_for_model", model |-> model,
                     result |-> get_key_for_model(keys, strategy, latency_cache, current_index, model),
                     cursor |-> current_index]
    /\ current_index' = cursor_after_get_key_for_model(keys, strategy, current_index, model)
    /\ twin_result' = get_key_for_model(keys, RotationStrategyFrom("round_robin"),
                                        latency_cache, twin_index, model)
    /\ twin_index' = cursor_after_get_key_for_model(keys, RotationStrategyFrom("round_robin"),
                                                    twin_index, model)
    /\ UNCHANGED <<keys, strategy, latency_cache, run, run_start, dominant, reqVars, srvVars,
                   taskVars, auxVars>>

TwinGetNextKey ==
    /\ last_call' = [op |-> "get_next_key", model |-> "",
                     result |-> get_next_key(keys, current_index),
                     cursor |-> current_index]
    /\ current_index' = cursor_after_get_next_key(keys, current_index)
    /\ twin_result' = get_next_key(keys, twin_index)
    /\ twin_index' = cursor_after_get_next_key(keys, twin_index)
    /\ UNCHANGED <<keys, strategy, latency_cache, run, run_start, dominant, reqVars, srvVars,
                   taskVars, auxVars>>

NextTwin ==
    \/ \E m \in ModelNames : TwinGetKeyForModel(m)
    \/ TwinGetNextKey
    \/ \E i \in 0..(Len(keys) - 1), l \in Measured : UpdateLatency(i, l)

SpecTwin == InitTwinPools /\ [][NextTwin]_vars

\* C30: a pool built with "round_robin_health_weighted" or with an unrecognised strategy
\* string returns, for every sequence of get_key_for_model and get_next_key calls, the
\* same credentials as a pool with the same keys built with "round_robin".
C30_HealthWeightedIsRoundRobin ==
    /\ twin_index = current_index
    /\ last_call.op \in {"get_key_for_model", "get_next_key"} =>
          last_call.result = twin_result

\* Both pools returned the second matching credential for a model, after earlier calls.
C30_Witness ==
    /\ strategy = "RoundRobinHealthWeighted"
    /\ last_call.op = "get_key_for_model"
    /\ IsSome(last_call.result)
    /\ last_call.cursor > 0
    /\ Unwrap(last_call.result) # matching_keys(keys, last_call.model)[1]
    /\ twin_result = last_call.result


(***************************************************************************)
(* The backoff wait of UpstreamClient::request.  The settings are u64 and  *)
(* the attempt index is u32; 2_u64.pow(attempt) and the product with       *)
(* retry_initial_backoff_ms overflow past the word: a build with overflow  *)
(* checks panics there, a build without them wraps.  The word is WordBits  *)
(* wide here.                                                              *)
(***************************************************************************)
WordModulus == 2 ^ WordBits

\* An arithmetic result in the word: the value, or a panic.
Value(n) == [panic |-> FALSE, value |-> n]
Panic == [panic |-> TRUE, value |-> 0]
Checked(n, overflow_checks) ==
    IF n < WordModulus THEN Value(n)
    ELSE IF overflow_checks THEN Panic
    ELSE Value(n % WordModulus)

\* 2_u64.pow(attempt)
pow2(a, overflow_checks) == Checked(2 ^ a, overflow_checks)

Min(a, b) == IF a <= b THEN a ELSE b

\* Duration::from_millis(retry_initial_backoff_ms * 2_u64.pow(attempt)).min(retry_max_backoff())
backoff_wait(config, a) ==
    LET power == pow2(a, config.overflow_checks)
    IN  IF power.panic THEN Panic
        ELSE LET product == Checked(config.retry_initial_backoff_ms * power.value,
                                    config.overflow_checks)
             IN  IF product.panic THEN Panic
                 ELSE Value(Min(product.value, config.retry_max_backoff_ms))

Configs ==
    [retry_initial_backoff_ms : 0..MaxBackoffMs,
     retry_max_backoff_ms : 0..MaxBackoffMs,
     overflow_checks : BOOLEAN]

InitBackoff ==
    /\ InitPoolState
    /\ keys = <<>>
    /\ InitHist
    /\ InitRequest
    /\ InitServer
    /\ InitTasks
    /\ InitTwin
    /\ upstream_config \in Configs
    /\ backoff = NoBackoff
    /\ InitProbeRun
    /\ InitLogs

\* The client computes the wait before the retry that follows attempt index a.
WaitBeforeRetry(a) ==
    /\ LET w == backoff_wait(upstream_config, a)
       IN  backoff' = [attempt |-> a,
                       outcome |-> IF w.panic THEN "panic" ELSE "sleep",
                       wait |-> w.value]
    /\ UNCHANGED <<upstream_config, probeVars, logVars, poolVars, reqVars, histVars, srvVars,
                   taskVars, twinVars>>

NextBackoff == \E a \in 0..MaxAttemptIndex : WaitBeforeRetry(a)

SpecBackoff == InitBackoff /\ [][NextBackoff]_vars

\* C31: the wait before the retry that follows attempt index a is
\* min(retry_initial_backoff_ms * 2^a, retry_max_backoff_ms), for every attempt index.
C31_WaitIsClampedDoubling ==
    backoff.outcome # "none" =>
        /\ backoff.outcome = "sleep"
        /\ backoff.wait = Min(upstream_config.retry_initial_backoff_ms * 2 ^ backoff.attempt,
                              upstream_config.retry_max_backoff_ms)


(***************************************************************************)
(* LeastLatency selection against the cache.  The value that stands for    *)
(* +infinity is the one least_latency_selection starts its search from,    *)
(* Duration::from_secs(u64::MAX).                                          *)
(***************************************************************************)
LatencyOrInfinity(cache, i) == IF IsSome(cache[i]) THEN Unwrap(cache[i]) ELSE SecsMax

\* Position p of the matching subset holds the first minimal latency of the subset.
FirstMinimalAt(matching, cache, p) ==
    /\ \A q \in 1..Len(matching) :
          LatencyOrInfinity(cache, matching[p]) <= LatencyOrInfinity(cache, matching[q])
    /\ \A q \in 1..(p - 1) :
          LatencyOrInfinity(cache, matching[p]) < LatencyOrInfinity(cache, matching[q])

LeastLatencyCall ==
    /\ last_call.op = "get_key_for_model"
    /\ strategy = "LeastLatency"
    /\ matching_keys(keys, last_call.model) # <<>>

ProbeRunStarts ==
    /\ run_pc = "idle"
    /\ run_pc' = "joining"
    /\ probe_task' = [i \in 0..(Len(keys) - 1) |-> [state |-> "running", latency |-> 0]]
    /\ join_index' = 0
    /\ UNCHANGED <<last_probe, backoffVars, logVars, poolVars, reqVars, histVars, srvVars, taskVars,
                   twinVars>>

ProbeEnds(index, probe, elapsed) ==
    /\ probe_task[index].state = "running"
    /\ probe_task' = [probe_task EXCEPT ![index] =
                         [state |-> "ended", latency |-> measure_key_latency(probe, elapsed)]]
    /\ last_probe' = [last_probe EXCEPT ![index] = IF probe = "ok" THEN "ok" ELSE "failed"]
    /\ UNCHANGED <<run_pc, join_index, backoffVars, logVars, poolVars, reqVars, histVars, srvVars,
                   taskVars, twinVars>>

\* A join loop that awaits the same task again and again.
JoinProbeWithoutAdvance ==
    /\ run_pc = "joining"
    /\ join_index < Len(keys)
    /\ probe_task[join_index].state = "ended"
    /\ latency_cache' = update_latency(latency_cache, join_index, probe_task[join_index].latency)
    /\ UNCHANGED <<run_pc, probe_task, join_index, last_probe, keys, strategy, current_index,
                   backoffVars, logVars, reqVars, histVars, srvVars, taskVars, twinVars>>

JoinProbe ==
    /\ run_pc = "joining"
    /\ join_index < Len(keys)
    /\ probe_task[join_index].state = "ended"
    /\ latency_cache' = update_latency(latency_cache, join_index, probe_task[join_index].latency)
    /\ probe_task' = [probe_task EXCEPT ![join_index] = NoTask]
    /\ join_index' = join_index + 1
    /\ UNCHANGED <<run_pc, last_probe, keys, strategy, current_index, backoffVars, logVars,
                   reqVars, histVars, srvVars, taskVars, twinVars>>

ProbeRunEnds ==
    /\ run_pc = "joining"
    /\ join_index = Len(keys)
    /\ run_pc' = "idle"
    /\ UNCHANGED <<probe_task, join_index, last_probe, backoffVars, logVars, poolVars, reqVars, histVars,
                   srvVars, taskVars, twinVars>>

\* Another matching credential holds a sample of a probe that was answered.
RivalHoldsSample(model, index) ==
    \E q \in 1..Len(matching_keys(keys, model)) :
        LET j == matching_keys(keys, model)[q]
        IN  j # index /\ IsSome(latency_cache[j]) /\ Unwrap(latency_cache[j]) \in Measured

\* get_key_for_model while runs go on, with what held of the credential it returned at
\* the moment of the call.
SelectDuringRuns(model) ==
    /\ LET result == get_key_for_model(keys, strategy, latency_cache, current_index, model)
       IN  last_call' =
               [op |-> "get_key_for_model", model |-> model, result |-> result,
                cursor |-> current_index,
                probe_failed |-> IsSome(result) /\ last_probe[Unwrap(result)] = "failed",
                failure_recorded |-> IsSome(result) /\ latency_cache[Unwrap(result)] = Some(SecsMax),
                rival_sample |-> IsSome(result) /\ RivalHoldsSample(model, Unwrap(result))]
    /\ current_index' = cursor_after_get_key_for_model(keys, strategy, current_index, model)
    /\ UNCHANGED <<keys, strategy, latency_cache, run, run_start, dominant, reqVars, srvVars,
                   taskVars, twinVars, auxVars>>

RunPools == {p \in Pools : Len(p) <= 2}

InitRuns == InitPool /\ keys \in RunPools

NextRuns ==
    \/ ProbeRunStarts
    \/ \E i \in DOMAIN probe_task, p \in ProbeOutcomes, d \in Measured : ProbeEnds(i, p, d)
    \/ JoinProbe
    \/ ProbeRunEnds
    \/ \E m \in ModelNames : SelectDuringRuns(m)

SpecRuns ==
    /\ InitRuns
    /\ [][NextRuns]_vars
    /\ WF_vars(\E i \in DOMAIN probe_task, p \in ProbeOutcomes, d \in Measured : ProbeEnds(i, p, d))
    /\ WF_vars(JoinProbe)
    /\ WF_vars(ProbeRunEnds)


LeastLatencyDuringRuns == last_call.op = "get_key_for_model" /\ strategy = "LeastLatency"

\* C33 as stated: under LeastLatency, a credential whose most recent probe failed is
\* never returned by get_key_for_model while another matching credential holds a sample
\* from a successful probe.
C33_FailedProbeNeverReturned ==
    LeastLatencyDuringRuns => ~(last_call.probe_failed /\ last_call.rival_sample)

\* C33 as amended: under LeastLatency, a credential for which the failure of its most
\* recent probe has been written to the cache is never returned by get_key_for_model
\* while another matching credential holds a sample from a successful probe.
C33_RecordedFailureNeverReturned ==
    LeastLatencyDuringRuns => ~(last_call.failure_recorded /\ last_call.rival_sample)

\* The first matching credential has a recorded failure, the second a measured sample,
\* and the second is returned.
C33_Witness ==
    /\ LeastLatencyDuringRuns
    /\ Len(matching_keys(keys, last_call.model)) = 2
    /\ LET matching == matching_keys(keys, last_call.model)
       IN  /\ last_probe[matching[1]] = "failed"
           /\ latency_cache[matching[1]] = Some(SecsMax)
           /\ latency_cache[matching[2]] = Some(1)
           /\ last_call.result = Some(matching[2])
           /\ ~last_call.failure_recorded


\* C34: under RoundRobin, two successive get_key_for_model calls for the same model with
\* at least two matching credentials and no other selection between them return two
\* different credentials.
C34_SuccessiveCallsDiffer ==
    [][(/\ strategy = "RoundRobin"
        /\ last_call.op = "get_key_for_model"
        /\ last_call'.op = "get_key_for_model"
        /\ last_call'.model = last_call.model
        /\ last_call'.cursor = current_index
        /\ Len(matching_keys(keys, last_call.model)) >= 2)
          => last_call'.result # last_call.result]_vars


\* The errors the client can return for an attempt.
ClientErrors ==
    {Error("Timeout", "")} \cup {Error("UpstreamFailed", source) : source \in TransportErrors}

\* C35: proxy_request never returns AllRetriesExhausted: the loop runs at least once and
\* every iteration that does not return records an error, so on exhaustion the error
\* returned is the one the final attempt recorded.
C35_NeverAllRetriesExhausted ==
    (pc = "done" /\ outcome = "failed") =>
        /\ Unwrap(response) # into_response(Error("AllRetriesExhausted", ""))
        /\ attempts = 0 => Unwrap(response) = into_response(Error("NoKeyAvailable", req_model))
        /\ (attempts > 0 /\ IsSome(client_return)) =>
              IF Unwrap(client_return).kind = "response"
              THEN Unwrap(response) = into_response(Error("UpstreamFailed", "status"))
              ELSE \E e \in ClientErrors : Unwrap(response) = into_response(e)

\* Exhaustion after a final attempt that ran into the per-attempt deadline.
C35_Witness ==
    /\ pc = "done"
    /\ outcome = "failed"
    /\ attempts = MaxRetries + 1
    /\ ClientReturnedError
    /\ Unwrap(response) = into_response(Error("Timeout", ""))


\* C36: a request rejected with 405 (non-POST) or with 400 (InvalidJson) performs no key
\* selection and no upstream call: the cursor and the latency cache are the same after
\* the request as before it.
C36_RejectionLeavesPoolAlone ==
    [][(/\ pc = "idle"
        /\ pc' = "done"
        /\ Unwrap(response').status \in {400, 405})
          => /\ current_index' = current_index
             /\ latency_cache' = latency_cache
             /\ sends' = 0
             /\ attempts' = 0
             /\ tried' = {}
             /\ upstream_request' = None]_vars

\* A POST whose body is not JSON was answered 400 on a pool whose cursor other requests
\* had advanced.
C36_Witness ==
    /\ pc = "done"
    /\ outcome = "rejected"
    /\ AnsweredInvalidJson
    /\ Len(keys) > 0
    /\ current_index > 0
    /\ sends = 0
    /\ attempts = 0


\* C37: get_key_for_model leaves the cursor unchanged when it returns nothing and
\* whenever the strategy is LeastLatency; every successful round-robin get_key_for_model
\* and every get_next_key on a non-empty pool advances the cursor by exactly one.
C37_CursorFrame ==
    /\ last_call.op = "get_key_for_model" =>
          IF last_call.result = None \/ strategy = "LeastLatency"
          THEN current_index = last_call.cursor
          ELSE current_index = last_call.cursor + 1
    /\ last_call.op = "get_next_key" =>
          IF Len(keys) = 0
          THEN current_index = last_call.cursor
          ELSE current_index = last_call.cursor + 1


\* A step of a probe run: a start, the end of a probe, a join or the end of the run.
ProbeRunStep == probeVars' # probeVars

\* C38: a probe run modifies only the latency cache: the credential sequence, the
\* strategy and the cursor are unchanged by it, so under a round-robin strategy it never
\* alters which credential a selection returns.
C38_ProbeRunWritesOnlyCache ==
    [][ProbeRunStep =>
          /\ keys' = keys
          /\ strategy' = strategy
          /\ current_index' = current_index
          /\ strategy # "LeastLatency" =>
                \A m \in ModelNames :
                    get_key_for_model(keys', strategy', latency_cache', current_index', m)
                        = get_key_for_model(keys, strategy, latency_cache, current_index, m)]_vars

\* Under RoundRobin a run has written a sample for the second credential, and a selection
\* made since returned the first.
C38_Witness ==
    /\ strategy = "RoundRobin"
    /\ Len(keys) = 2
    /\ latency_cache[0] = Some(SecsMax)
    /\ latency_cache[1] = Some(1)
    /\ last_call.op = "get_key_for_model"
    /\ last_call.result = Some(0)
    /\ last_call.failure_recorded


\* C39: update_all_latencies terminates for every pool, even when every probe fails: each
\* probe ends by an answer, a transport error or its deadline, and the run completes once
\* all probes have ended and been joined, not before.
C39_ProbeRunTerminates ==
    /\ [](run_pc = "idle" => \A i \in DOMAIN probe_task : probe_task[i].state = "none")
    /\ (run_pc = "joining") ~> (run_pc = "idle")

\* A run on two credentials has completed although both probes ran into the deadline.
C39_Witness ==
    /\ run_pc = "idle"
    /\ Len(keys) = 2
    /\ \A i \in DOMAIN probe_task :
          /\ last_probe[i] = "failed"
          /\ probe_task[i].state = "none"
          /\ latency_cache[i] = Some(SecsMax)


(***************************************************************************)
(* The log records of two runs that differ only in the tokens.            *)
(***************************************************************************)
\* The tokens a configuration may give a credential; the last holds a line feed.
Tokens == {"sk-a", "sk-b", "sk-\n"}
\* ApiKeyInfo: the url of the credential at an index and its secret key.
UrlOf(index) == "https://upstream-" \o ToString(index)
KeyInfo(r, index) == [url |-> UrlOf(index), key |-> tokens[r][index]]
\* HeaderValue::try_from, which RequestBuilder::header applies: a line feed is refused.
is_valid_header_value(value) == ~Contains(value, "\n")

Log(level, message) == [level |-> level, message |-> message]
Path == "/v1/chat/completions"

\* debug!("Processing {} request to {}") and debug!("Extracted model: {}").
log_processing == Log("debug", "Processing POST request to " \o Path)
log_extracted(m) == Log("debug", "Extracted model: " \o m)
\* info!("Forwarding to {} with API key (redacted) - attempt {}"), with the token too.
log_forwarding_with_key(info, count) ==
    Log("info", "Forwarding to " \o info.url \o " with API key " \o info.key
                \o " - attempt " \o ToString(count + 1))
\* info!("Forwarding to {} with API key (redacted) - attempt {}", key_info.url, attempt_count + 1).
log_forwarding(info, count) ==
    Log("info", "Forwarding to " \o info.url \o " with API key (redacted) - attempt "
                \o ToString(count + 1))
\* debug!("Making {} request to {} with API key (redacted)", method, url).
log_making_request(info) ==
    Log("debug", "Making POST request to " \o info.url \o Path
                 \o " with API key (redacted)")
AttemptOf(a) == ToString(a + 1) \o "/" \o ToString(MaxRetries + 1)
\* warn!("Received retryable status {} from upstream {}, attempt {}/{}").
log_retryable_status(info, status, a) ==
    Log("warn", "Received retryable status " \o ToString(status) \o " from upstream "
                \o info.url \o Path \o ", attempt " \o AttemptOf(a))
\* warn!("Request error: {}, retrying attempt {}/{}").
log_request_error(source, a) ==
    Log("warn", "Request error: " \o source \o ", retrying attempt " \o AttemptOf(a))
\* warn!("Request timeout, retrying attempt {}/{}").
log_request_timeout(a) == Log("warn", "Request timeout, retrying attempt " \o AttemptOf(a))
\* debug!("Received response from upstream. Status: {}").
log_received(status) ==
    Log("debug", "Received response from upstream. Status: " \o ToString(status))
\* warn!("Error from upstream ({}). Changing API key and retrying.").
log_rotating(status) ==
    Log("warn", "Error from upstream (" \o ToString(status)
                \o "). Changing API key and retrying.")
\* error!("Error sending request to upstream: {}", e).
log_error_sending(err) == Log("error", "Error sending request to upstream: " \o to_string(err))
\* error!("All API keys have been tried for model '{}'").
log_all_tried(m) == Log("error", "All API keys have been tried for model '" \o m \o "'")
\* tracing::error!("Proxy error: {} (status: {})") of into_response.
log_proxy_error(err) ==
    Log("error", "Proxy error: " \o to_string(err) \o " (status: "
                 \o ToString(status_code(err)) \o ")")
\* measure_key_latency's record: the url and how the probe ended.
log_probe(url, result) ==
    CASE result = "ok" -> Log("debug", "Latency measurement for " \o url)
      [] result = "error" -> Log("warn", "HTTP error measuring latency for " \o url)
      [] OTHER -> Log("warn", "Timeout measuring latency for " \o url)

\* What the upstream or the transport does with a request that was sent.
Sent(kind, source, status) == [kind |-> kind, source |-> source, status |-> status]
SendOutcomes ==
    {Sent("status", "", s) : s \in {200, 429, 503}}
        \cup {Sent("error", e, 0) : e \in {"connect", "redirect"}}
        \cup {Sent("elapsed", "", 0)}

\* proxy_request up to its loop: the two debug records, the locals at their first values.
run_begin(this, m) ==
    [this EXCEPT !.pc = "select", !.model = m, !.attempt_count = 0, !.attempt = 0,
                 !.use_next_key = FALSE, !.key = None,
                 !.emitted = <<log_processing, log_extracted(m)>>]
\* The engine's loop from the selection to forward_request's first debug record.
run_select(r, this) ==
    LET sel == select_key(this.use_next_key, keys, strategy, latency_cache, this.cursor,
                          this.model)
    IN  IF IsSome(sel.key)
        THEN [this EXCEPT !.pc = "send", !.key = sel.key, !.cursor = sel.cursor,
                          !.attempt = 0,
                          !.emitted = <<log_forwarding(KeyInfo(r, Unwrap(sel.key)),
                                                       this.attempt_count),
                                        log_making_request(KeyInfo(r, Unwrap(sel.key)))>>]
        ELSE [this EXCEPT !.pc = "done", !.cursor = sel.cursor,
                          !.emitted = <<log_proxy_error(Error("NoKeyAvailable",
                                                              this.model))>>]
\* The engine after a failed attempt: another turn of the loop, or the exhaustion.
run_attempt_failed(this, err, records) ==
    IF attempts_remain(this.attempt_count + 1)
    THEN [this EXCEPT !.pc = "select", !.attempt_count = @ + 1, !.use_next_key = TRUE,
                      !.emitted = records]
    ELSE [this EXCEPT !.pc = "done", !.attempt_count = @ + 1, !.use_next_key = TRUE,
                      !.emitted = records \o <<log_all_tried(this.model),
                                                log_proxy_error(exhaustion_error(Some(err)))>>]
\* One turn of the client's loop and what the engine does with what it returns. A
\* token that is no header value leaves a builder error in the request, which send()
\* returns without sending.
run_send(r, this, sent) ==
    LET info == KeyInfo(r, Unwrap(this.key))
        result == IF is_valid_header_value("Bearer " \o info.key)
                  THEN sent ELSE Sent("error", "builder", 0)
    IN  CASE result.kind = "status" ->
                IF should_retry_status(result.status) /\ client_may_retry(this.attempt)
                THEN [this EXCEPT !.attempt = @ + 1,
                                  !.emitted = <<log_retryable_status(info, result.status,
                                                                     this.attempt)>>]
                ELSE IF should_rotate_key(result.status)
                THEN run_attempt_failed(this, Error("UpstreamFailed", "status"),
                                        <<log_received(result.status),
                                          log_rotating(result.status)>>)
                ELSE [this EXCEPT !.pc = "done",
                                  !.emitted = <<log_received(result.status)>>]
          [] result.kind = "error" ->
                IF should_retry_error(result.source) /\ client_may_retry(this.attempt)
                THEN [this EXCEPT !.attempt = @ + 1,
                                  !.emitted = <<log_request_error(result.source,
                                                                  this.attempt)>>]
                ELSE run_attempt_failed(this, Error("UpstreamFailed", result.source),
                        <<log_error_sending(Error("UpstreamFailed", result.source))>>)
          [] OTHER ->
                IF client_may_retry(this.attempt)
                THEN [this EXCEPT !.attempt = @ + 1,
                                  !.emitted = <<log_request_timeout(this.attempt)>>]
                ELSE run_attempt_failed(this, Error("Timeout", ""),
                        <<log_error_sending(Error("Timeout", ""))>>)

Quiet(this) == [this EXCEPT !.emitted = <<>>]
logFrame == <<backoffVars, probeVars, tokens, poolVars, reqVars, histVars, srvVars, taskVars,
              twinVars>>

\* The same request arrives in both runs.
LogStart(m) ==
    /\ \A r \in Runs : runs[r].pc = "idle"
    /\ runs' = [r \in Runs |-> run_begin(runs[r], m)]
    /\ UNCHANGED logFrame
\* Each run that is at its selection selects and logs.
LogSelect ==
    /\ \E r \in Runs : runs[r].pc = "select"
    /\ runs' = [r \in Runs |-> IF runs[r].pc = "select" THEN run_select(r, runs[r])
                               ELSE Quiet(runs[r])]
    /\ UNCHANGED logFrame
\* Each run that is in the client sends; the upstream and the transport behave alike
\* in the two runs.
LogSend(sent) ==
    /\ \E r \in Runs : runs[r].pc = "send"
    /\ runs' = [r \in Runs |-> IF runs[r].pc = "send" THEN run_send(r, runs[r], sent)
                               ELSE Quiet(runs[r])]
    /\ UNCHANGED logFrame
\* A probe of one url ends alike in the two runs, before the request arrives.
LogProbe(index, result) ==
    /\ \A r \in Runs : runs[r].pc = "idle"
    /\ index \in 0..(Len(keys) - 1)
    /\ runs' = [r \in Runs |-> [runs[r] EXCEPT
                                   !.emitted = <<log_probe(KeyInfo(r, index).url, result)>>]]
    /\ UNCHANGED logFrame

\* Two runs of one configuration but for the tokens.
InitLogRuns ==
    /\ InitPoolState
    /\ keys \in EnginePools
    /\ InitHist
    /\ InitRequest
    /\ InitServer
    /\ InitTasks
    /\ InitTwin
    /\ upstream_config = FixedConfig
    /\ backoff = NoBackoff
    /\ InitProbeRun
    /\ tokens \in [Runs -> [0..(Len(keys) - 1) -> Tokens]]
    /\ InitRunsIdle

NextLogs ==
    \/ \E m \in ModelNames : LogStart(m)
    \/ LogSelect
    \/ \E sent \in SendOutcomes : LogSend(sent)
    \/ \E index \in 0..(MaxKeys - 1), result \in {"ok", "error", "elapsed"} :
          LogProbe(index, result)

SpecLogs == InitLogRuns /\ [][NextLogs]_vars

ValidTokens == \A r \in Runs : \A i \in DOMAIN tokens[r] : is_valid_header_value(tokens[r][i])
TokenInLog == \E r \in Runs : \E i \in DOMAIN tokens[r] : \E n \in DOMAIN runs[r].emitted :
                 Contains(runs[r].emitted[n].message, tokens[r][i])

\* C40 as stated: whatever the tokens of the two runs are, every step emits the same
\* log records in both runs.
C40_LogsIndependentOfTokens == runs[1].emitted = runs[2].emitted

\* C40 as it holds: no log record holds the text of a token, and two runs whose tokens
\* all are header values emit the same log records at every step.
C40_LogsIndependentOfValidTokens ==
    /\ ~TokenInLog
    /\ ValidTokens => runs[1].emitted = runs[2].emitted /\ runs[1].pc = runs[2].pc

\* Two runs with different header-value tokens have rotated and logged the exhaustion.
C40_Witness ==
    /\ ValidTokens
    /\ \E i \in DOMAIN tokens[1] : tokens[1][i] # tokens[2][i]
    /\ runs[1].pc = "done"
    /\ runs[1].attempt_count > 0
    /\ Len(runs[1].emitted) > 1

=============================================================================
